---- MODULE Spec2Model ----
(***************************************************************************)
(* The Gateway process manager (electron/gateway/manager.ts) as a state    *)
(* machine.  Every callback the Node event loop can run (an IPC call of    *)
(* start/stop/restart/rpc, a fetch completing, a socket or child-process   *)
(* event, a timer firing) is one action; the synchronous code it runs,     *)
(* together with the promise continuations that run before the next        *)
(* callback, is the body of that action.  Around it: the IPC bridge that   *)
(* serves the window, the gateway store of the renderer, and the           *)
(* device-OAuth manager (electron/utils/device-oauth.ts).                  *)
(***************************************************************************)
EXTENDS Integers, Sequences, FiniteSets, TLC

\* ---- bounds of the model ----
MaxSockets == 2      \* WebSocket objects existing at once
MaxProcs == 2        \* child processes existing at once
MaxCalls == 2        \* start() invocations suspended at once
MaxRequests == 2     \* correlation ids generated in a run
MaxCommands == 2     \* start, stop and restart commands issued in a run
MaxInFlight == 3     \* messages on their way to the window at once
MaxAwaited == 2      \* start() actions of the renderer's store awaiting their result
MaxFlows == 3        \* device-OAuth flows started in a run

\* ---- program constants ----
Retries == 30                \* waitForReady(retries = 30, ...)
OPENCLAW_GATEWAY == 18789    \* PORTS.OPENCLAW_GATEWAY
RpcDeadline == 30000         \* setTimeout(..., 30000) of rpc()

VARIABLES
  status,           \* this.status: [state, port, pid, error] (pid 0, error "none": unset)
  process,          \* this.process: 0 (null) or a child process
  ws,               \* this.ws: 0 (null) or a socket
  reconnectTimer,   \* this.reconnectTimer is set
  reconnectTimeouts, \* the timeouts set by scheduleReconnect() that are pending
  pingInterval,     \* this.pingInterval is set
  pendingRequests,  \* keys of this.pendingRequests
  socks,            \* the WebSocket objects: readyState, closed by stop()
  procs,            \* the child processes: alive/failed/dead, kill() called
  calls,            \* the suspended start() invocations
  timeouts,         \* ids whose setTimeout of rpc() is armed
  nextId,           \* ids generated so far by crypto.randomUUID()
  outcome,          \* per id: how its promise was settled, with what, how often;
                    \* while it is pending, the method of the call
  emitted,          \* 'status' events emitted by the last callback, in order
  messages,         \* 'message' events emitted by the last callback
  returned,         \* the calls that returned or threw in the last callback, in order
  commands,         \* the start, stop and restart commands issued so far, in order
  store,            \* the renderer's gateway store: status, isInitialized, the start()
                    \* actions awaiting their result, how the last one ended
  toMain,           \* invocations of the bridge on their way to the main process
  toRenderer,       \* replies and events on their way to the window, in order
  active,           \* DeviceOAuthManager.active
  activeProvider,   \* DeviceOAuthManager.activeProvider ("null": none)
  flows,            \* the startFlow() calls: where each is, its provider, and whether
                    \* stopFlow() or a newer startFlow() has cancelled it
  oauthSent         \* oauth:success and oauth:error sent by the last callback

managerVars ==
  <<status, process, ws, reconnectTimer, reconnectTimeouts, pingInterval, pendingRequests,
    socks, procs, calls, timeouts, nextId, outcome, emitted, messages,
    returned, commands>>

oauthVars == <<active, activeProvider, flows, oauthSent>>

vars == <<managerVars, store, toMain, toRenderer, oauthVars>>

Sockets == 1..MaxSockets
Procs == 1..MaxProcs
Calls == 1..MaxCalls
Ids == 1..MaxRequests
Values == {1, 2}     \* results a response can carry
Methods == {1, 2}    \* method names an rpc() call can be given

FreeSock == [rs |-> "FREE", byStop |-> FALSE, port |-> 0]
FreeProc == [st |-> "FREE", killed |-> FALSE]
FreeCall == [pc |-> "idle", sock |-> 0, byTimer |-> FALSE]
NoOutcome == [how |-> "unsent", val |-> 0, n |-> 0]

\* The manager and its environment before a callback runs; the per-callback
\* logs start empty.  sent (the ids of the requests written to the socket),
\* armed (the timers set by rpc(), with their delay) and polled (the number of
\* health fetches each waitForReady() made) are logs of the callback that
\* nothing reads afterwards.
Cur ==
  [status |-> status, process |-> process, ws |-> ws,
   reconnectTimer |-> reconnectTimer, reconnectTimeouts |-> reconnectTimeouts,
   pingInterval |-> pingInterval,
   pendingRequests |-> pendingRequests, socks |-> socks, procs |-> procs,
   calls |-> calls, timeouts |-> timeouts, nextId |-> nextId,
   outcome |-> outcome, emitted |-> <<>>, messages |-> <<>>, returned |-> <<>>,
   sent |-> <<>>, armed |-> <<>>, polled |-> <<>>]

\* ---- GatewayManager ----

\* setStatus without its emit.
setStatus_silent(m, update) ==
  [m EXCEPT !.status = [k \in DOMAIN m.status |->
                          IF k \in DOMAIN update THEN update[k] ELSE m.status[k]]]

\* private setStatus(update): merge, then emit 'status' with the whole status.
setStatus(m, update) ==
  LET st == [k \in DOMAIN m.status |->
               IF k \in DOMAIN update THEN update[k] ELSE m.status[k]]
  IN [m EXCEPT !.status = st, !.emitted = Append(m.emitted, st)]

\* scheduleReconnect() without its check of this.reconnectTimer.
scheduleReconnect_unguarded(m) ==
  [m EXCEPT !.reconnectTimer = TRUE, !.reconnectTimeouts = @ + 1]

\* private scheduleReconnect(): nothing when a timer is pending, else a new
\* timeout whose handle is kept.
scheduleReconnect(m) ==
  IF m.reconnectTimer THEN m
  ELSE [m EXCEPT !.reconnectTimer = TRUE, !.reconnectTimeouts = @ + 1]

\* private startPing(): (re)arms the interval.
startPing(m) == [m EXCEPT !.pingInterval = TRUE]

\* The lowest free slot of each kind, 0 when there is none.
freeSock(m) ==
  IF \E s \in Sockets : m.socks[s].rs = "FREE"
  THEN CHOOSE s \in Sockets : /\ m.socks[s].rs = "FREE"
                              /\ \A t \in Sockets : m.socks[t].rs = "FREE" => s <= t
  ELSE 0

freeProc(m) ==
  IF \E p \in Procs : m.procs[p].st = "FREE"
  THEN CHOOSE p \in Procs : /\ m.procs[p].st = "FREE"
                            /\ \A q \in Procs : m.procs[q].st = "FREE" => p <= q
  ELSE 0

freeCall(m) ==
  IF \E k \in Calls : m.calls[k].pc = "idle"
  THEN CHOOSE k \in Calls : /\ m.calls[k].pc = "idle"
                            /\ \A j \in Calls : m.calls[j].pc = "idle" => k <= j
  ELSE 0

\* A start() invocation returns (ok) or throws (error) to its caller.
return(m, k, ok, error) ==
  [m EXCEPT !.calls[k] = FreeCall,
            !.returned = Append(@, [op |-> "start", byTimer |-> m.calls[k].byTimer,
                                    ok |-> ok, error |-> error])]

\* The reconnect timer's callback with a catch that only logs.
reconnectCatch_logOnly(m, byTimer) == m

\* The catch of the reconnect timer's callback: a failed attempt reschedules.
reconnectCatch(m, byTimer) ==
  IF byTimer THEN scheduleReconnect(m) ELSE m

\* The catch block of start(): state 'error' with the message, and rethrow.
startCatch(m, k, error) ==
  LET m1 == setStatus(m, [state |-> "error", error |-> error])
  IN reconnectCatch(return(m1, k, FALSE, error), m.calls[k].byTimer)

\* start() without its check of 'running'.
start_unguarded(m, byTimer) ==
  LET m1 == setStatus(m, [state |-> "starting"])
  IN IF freeCall(m) = 0 THEN m1
     ELSE [m1 EXCEPT !.calls[freeCall(m)] =
                       [pc |-> "probe", sock |-> 0, byTimer |-> byTimer]]

\* start() up to its first await (the fetch of findExistingGateway).
start(m, byTimer) ==
  IF m.status.state = "running"
  THEN [m EXCEPT !.returned = Append(@, [op |-> "start", byTimer |-> byTimer,
                                         ok |-> TRUE, error |-> "none"])]
  ELSE LET m1 == setStatus(m, [state |-> "starting"])
       IN [m1 EXCEPT !.calls[freeCall(m)] =
                        [pc |-> "probe", sock |-> 0, byTimer |-> byTimer]]

canStart(m) == m.status.state = "running" \/ freeCall(m) # 0

\* connect(port) up to the promise it returns: a new socket replaces this.ws.
connect(m, k, port) ==
  LET s == freeSock(m)
  IN [m EXCEPT !.socks[s] = [rs |-> "CONNECTING", byStop |-> FALSE, port |-> port],
               !.ws = s,
               !.calls[k] = [@ EXCEPT !.pc = "connect", !.sock = s]]

\* startProcess(): spawn, keep the handle, publish the pid when there is one.
\* The promise is resolved before any 'error' event can reject it.
startProcess(m, spawned) ==
  LET p == freeProc(m)
      m1 == [m EXCEPT !.procs[p] = [st |-> IF spawned THEN "alive" ELSE "failed",
                                     killed |-> FALSE],
                      !.process = p]
  IN IF spawned THEN setStatus(m1, [pid |-> p]) ELSE m1

\* The backend as the health fetches of one waitForReady() find it: the
\* first `fails` fetches fail, every later one would succeed.
Health(fails) == [i \in 1..Retries |-> i > fails]

\* The loop of waitForReady() going on after a fetch that succeeded.
RECURSIVE pollLoop_noReturn(_, _)
pollLoop_noReturn(i, health) ==
  IF i < Retries
  THEN LET r == pollLoop_noReturn(i + 1, health)
       IN [ok |-> health[i + 1] \/ r.ok, fetches |-> r.fetches]
  ELSE [ok |-> FALSE, fetches |-> i]

\* The loop of waitForReady() from round i on: fetch, return when the
\* response is ok, else next round; throw when no round is left.
RECURSIVE pollLoop(_, _)
pollLoop(i, health) ==
  IF i < Retries
  THEN IF health[i + 1] THEN [ok |-> TRUE, fetches |-> i + 1]
       ELSE pollLoop(i + 1, health)
  ELSE [ok |-> FALSE, fetches |-> i]

\* The outcome of the loop of waitForReady() for each number of fetches that
\* fail before the first that succeeds.
polling == [fails \in 0..Retries |-> pollLoop(0, Health(fails))]

\* waitForReady() and what start() does with its result.  The loop reads and
\* writes nothing of the manager between its fetches, so its rounds are taken
\* together.
waitForReady(m, k, fails) ==
  LET r == polling[fails]
      m1 == [m EXCEPT !.polled = Append(@, r.fetches)]
  IN IF r.ok
     THEN connect(m1, k, m.status.port)
     ELSE startCatch(m1, k, "Error: Gateway failed to start")

\* The continuation of start() without the adoption of an existing gateway.
afterProbe_alwaysSpawn(m, k, existing, spawned) ==
  LET m1 == startProcess(m, spawned)
  IN [m1 EXCEPT !.calls[k].pc = "ready"]

\* The continuation of start() after findExistingGateway().
afterProbe(m, k, existing, spawned) ==
  IF existing THEN connect(m, k, OPENCLAW_GATEWAY)
  ELSE LET m1 == startProcess(m, spawned)
       IN [m1 EXCEPT !.calls[k].pc = "ready"]

\* The start() invocation whose connect() promise belongs to socket s, 0 if settled.
awaiting(m, s) ==
  IF \E k \in Calls : m.calls[k].pc = "connect" /\ m.calls[k].sock = s
  THEN CHOOSE k \in Calls : m.calls[k].pc = "connect" /\ m.calls[k].sock = s
  ELSE 0

\* ws.on('open')
onOpen(m, s) ==
  LET m1 == [m EXCEPT !.socks[s].rs = "OPEN"]
      m2 == setStatus(m1, [state |-> "running", port |-> m.socks[s].port])
  IN return(startPing(m2), awaiting(m, s), TRUE, "none")

\* ws.on('close')
onClose(m) ==
  IF m.status.state = "running"
  THEN scheduleReconnect(setStatus(m, [state |-> "stopped"]))
  ELSE m

\* A socket that never opened: 'error' rejects the connect() promise, 'close'
\* follows in the same callback, then the rejection reaches start()'s catch.
onConnectError(m, s) ==
  LET m1 == onClose([m EXCEPT !.socks[s].rs = "CLOSED"])
  IN startCatch(m1, awaiting(m, s),
                "Error: WebSocket connection failed")

\* process.on('exit')
onExit(m, p) ==
  LET m1 == [m EXCEPT !.procs[p].st = "dead"]
  IN IF m1.status.state = "running"
     THEN scheduleReconnect(setStatus(m1, [state |-> "stopped"]))
     ELSE m1

\* process.on('error'): the reject() comes after resolve() and does nothing.
onProcessError(m, p) == [m EXCEPT !.procs[p].st = "dead"]

\* ws.close() of the library: a connecting socket is aborted, an open one
\* starts the closing handshake; its events are delivered later.
wsClose(sock) ==
  IF sock.rs \in {"CONNECTING", "OPEN"}
  THEN [sock EXCEPT !.rs = "CLOSING", !.byStop = TRUE]
  ELSE sock

\* process.kill()
kill(proc) == IF proc.st = "alive" THEN [proc EXCEPT !.killed = TRUE] ELSE proc

\* A call of resolve or reject of an rpc() promise: the first one settles it.
settle(o, how, val) ==
  IF o.n = 0 THEN [how |-> how, val |-> val, n |-> 1] ELSE [o EXCEPT !.n = @ + 1]

\* The loop of stop() without its clearTimeout.
rejectAll_timersLeft(m) ==
  [m EXCEPT !.outcome = [i \in Ids |-> IF i \in m.pendingRequests
                                       THEN settle(@[i], "stopped", 0) ELSE @[i]],
            !.pendingRequests = {}]

\* stop(): rejects and clears the pending requests.
rejectAll(m) ==
  [m EXCEPT !.timeouts = @ \ m.pendingRequests,
            !.outcome = [i \in Ids |-> IF i \in m.pendingRequests
                                       THEN settle(@[i], "stopped", 0) ELSE @[i]],
            !.pendingRequests = {}]

\* stop()
stop(m) ==
  LET m1 == [m EXCEPT !.reconnectTimer = FALSE,
                      !.reconnectTimeouts = IF m.reconnectTimer THEN @ - 1 ELSE @,
                      !.pingInterval = FALSE]
      m2 == IF m1.ws # 0
            THEN [m1 EXCEPT !.socks[m1.ws] = wsClose(@), !.ws = 0] ELSE m1
      m3 == IF m2.process # 0
            THEN [m2 EXCEPT !.procs[m2.process] = kill(@), !.process = 0] ELSE m2
  IN setStatus(rejectAll(m3), [state |-> "stopped"])

isOpen(m) == m.ws # 0 /\ m.socks[m.ws].rs = "OPEN"

\* rpc() without its check of the socket.
rpc_unchecked(m, method) ==
  LET id == m.nextId + 1
  IN IF id \in Ids
     THEN [m EXCEPT !.nextId = id,
                    !.timeouts = @ \cup {id},
                    !.armed = Append(@, [id |-> id, ms |-> RpcDeadline]),
                    !.pendingRequests = @ \cup {id},
                    !.outcome[id] = [how |-> "pending", val |-> method, n |-> 0],
                    !.sent = Append(@, id)]
     ELSE m

\* rpc(method): rejects at once without an open socket, else arms the timer,
\* registers the request and sends it.
rpc(m, method) ==
  IF ~isOpen(m)
  THEN [m EXCEPT !.returned = Append(@, [op |-> "rpc", byTimer |-> FALSE, ok |-> FALSE,
                                         error |-> "Error: Gateway not connected"])]
  ELSE LET id == m.nextId + 1
       IN [m EXCEPT !.nextId = id,
                    !.timeouts = @ \cup {id},
                    !.armed = Append(@, [id |-> id, ms |-> RpcDeadline]),
                    !.pendingRequests = @ \cup {id},
                    !.outcome[id] = [how |-> "pending", val |-> method, n |-> 0],
                    !.sent = Append(@, id)]

\* The setTimeout callback of rpc() giving up on every request.
onTimeout_dropsAll(m, id) ==
  [m EXCEPT !.timeouts = {},
            !.pendingRequests = {},
            !.outcome[id] = settle(@, "timeout", @.val)]

\* The setTimeout callback of rpc() without its delete.
onTimeout_entryLeft(m, id) ==
  [m EXCEPT !.timeouts = @ \ {id},
            !.outcome[id] = settle(@, "timeout", @.val)]

\* The setTimeout callback of rpc(): the error names the method of the call.
onTimeout(m, id) ==
  [m EXCEPT !.timeouts = @ \ {id},
            !.pendingRequests = @ \ {id},
            !.outcome[id] = settle(@, "timeout", @.val)]

\* handleMessage without its clearTimeout.
handleMessage_timerLeft(m, msg) ==
  IF msg.id # 0 /\ msg.id \in m.pendingRequests
  THEN [m EXCEPT !.pendingRequests = @ \ {msg.id},
                 !.outcome[msg.id] = IF msg.error # 0
                                     THEN settle(@, "rejected", msg.error)
                                     ELSE settle(@, "resolved", msg.result)]
  ELSE [m EXCEPT !.messages = Append(@, msg)]

\* handleMessage correlating by order: a response settles the oldest request.
handleMessage_byOrder(m, msg) ==
  IF msg.id # 0 /\ msg.id \in m.pendingRequests
  THEN LET id == CHOOSE i \in m.pendingRequests : \A j \in m.pendingRequests : i <= j
       IN [m EXCEPT !.timeouts = @ \ {id},
                    !.pendingRequests = @ \ {id},
                    !.outcome[id] = IF msg.error # 0
                                    THEN settle(@, "rejected", msg.error)
                                    ELSE settle(@, "resolved", msg.result)]
  ELSE [m EXCEPT !.messages = Append(@, msg)]

\* handleMessage emitting only the messages that carry no id.
handleMessage_responsesDropped(m, msg) ==
  IF msg.id # 0 /\ msg.id \in m.pendingRequests
  THEN [m EXCEPT !.timeouts = @ \ {msg.id},
                 !.pendingRequests = @ \ {msg.id},
                 !.outcome[msg.id] = IF msg.error # 0
                                     THEN settle(@, "rejected", msg.error)
                                     ELSE settle(@, "resolved", msg.result)]
  ELSE IF msg.id = 0 THEN [m EXCEPT !.messages = Append(@, msg)] ELSE m

\* handleMessage(message): id 0 is an absent id, error 0 an absent or falsy error.
handleMessage(m, msg) ==
  IF msg.id # 0 /\ msg.id \in m.pendingRequests
  THEN [m EXCEPT !.timeouts = @ \ {msg.id},
                 !.pendingRequests = @ \ {msg.id},
                 !.outcome[msg.id] = IF msg.error # 0
                                     THEN settle(@, "rejected", msg.error)
                                     ELSE settle(@, "resolved", msg.result)]
  ELSE [m EXCEPT !.messages = Append(@, msg)]

\* The messages handleMessage can be given, and those the backend sends:
\* notifications, and results or errors for ids it has been sent.
Msgs == [id : 0..MaxRequests, error : {0, 1}, result : {0} \cup Values]

Inbound(m) ==
  {msg \in Msgs : /\ msg.id <= m.nextId
                  /\ IF msg.id = 0 THEN msg.error = 0 /\ msg.result = 1
                     ELSE (msg.error = 0) # (msg.result = 0)}

\* ---- the IPC bridge (registerGatewayHandlers) ----

\* The try/catch of a bridge handler: the tagged result of an operation that
\* completed or threw; error is the text String(error) gives.
Reply(ok, error) ==
  IF ok THEN [success |-> TRUE] ELSE [success |-> FALSE, error |-> error]

\* gateway:rpc: the tagged result for a settled rpc() promise.  String(error)
\* of the Error that rejected it is 'Error: ' and its message.
gatewayRpcReply(o) ==
  CASE o.how = "resolved" -> [success |-> TRUE, result |-> o.val]
    [] o.how = "rejected" -> [success |-> FALSE, error |-> <<"Error: ", o.val>>]
    [] o.how = "timeout" -> [success |-> FALSE, error |-> <<"Error: RPC timeout: ", o.val>>]
    [] o.how = "stopped" -> [success |-> FALSE, error |-> "Error: Gateway stopped"]

\* gateway:restart calling start() without awaiting stop() first.
gatewayRestart_startFirst(m) == stop(start(m, FALSE))

\* gateway:restart up to the first await of start(): stop() has no await, so
\* start() follows in the same callback.
gatewayRestart(m) == start(stop(m), FALSE)

\* The renderer listens for status events from the moment the reply to its
\* gateway:status invocation is on its way: the channel to the window keeps
\* the order, so init() has registered the listener before any later event
\* is delivered, and every earlier event finds no listener.
Listening ==
  store.isInitialized \/ \E i \in DOMAIN toRenderer : toRenderer[i].ch = "gateway:status"

IsManualStart(r) == r.op = "start" /\ ~r.byTimer

\* What the bridge sends to the window in a callback: each 'status' event as
\* gateway:status-changed, then the result of each gateway:start whose start()
\* returned or threw.
Forwarded(m) ==
  LET manual == SelectSeq(m.returned, IsManualStart)
  IN (IF Listening
      THEN [i \in DOMAIN m.emitted |->
              [ch |-> "gateway:status-changed", body |-> m.emitted[i]]]
      ELSE <<>>)
     \o (IF store.awaiting > 0
         THEN [i \in DOMAIN manual |->
                 [ch |-> "gateway:start", body |-> Reply(manual[i].ok, manual[i].error)]]
         ELSE <<>>)

\* ---- the renderer's gateway store (useGatewayStore) ----

\* start() of the store up to its await: the state shown becomes 'starting'.
storeStart(st) ==
  [st EXCEPT !.status.state = "starting", !.awaiting = @ + 1, !.done = "none"]

\* What the store does with a message from the main process: the reply to
\* init()'s gateway:status, a status event, the result of a start().
storeReceive(st, msg) ==
  CASE msg.ch = "gateway:status" ->
         [st EXCEPT !.status = msg.body, !.isInitialized = TRUE]
    [] msg.ch = "gateway:status-changed" ->
         IF st.isInitialized THEN [st EXCEPT !.status = msg.body] ELSE st
    [] msg.ch = "gateway:start" ->
         [st EXCEPT !.awaiting = @ - 1,
                    !.done = IF msg.body.success THEN "ok" ELSE "failed",
                    !.status = IF msg.body.success THEN @
                               ELSE [@ EXCEPT !.state = "error", !.error = msg.body.error]]

\* A closed socket or a dead process that the manager no longer references
\* is garbage: its slot can hold a new object.
Collect(m) ==
  [m EXCEPT
     !.socks = [s \in Sockets |->
                  IF m.socks[s].rs = "CLOSED" /\ m.ws # s THEN FreeSock ELSE m.socks[s]],
     !.procs = [p \in Procs |->
                  IF m.procs[p].st = "dead" /\ m.process # p THEN FreeProc ELSE m.procs[p]]]

\* The callback's result becomes the next state; c is the command it serves,
\* if any, and out what the bridge's handler itself sends to the window after
\* what the callback forwarded.
Settle(n, c, out) ==
  LET m == Collect(n) IN
  /\ status' = m.status
  /\ process' = m.process
  /\ ws' = m.ws
  /\ reconnectTimer' = m.reconnectTimer
  /\ reconnectTimeouts' = m.reconnectTimeouts
  /\ pingInterval' = m.pingInterval
  /\ pendingRequests' = m.pendingRequests
  /\ socks' = m.socks
  /\ procs' = m.procs
  /\ calls' = m.calls
  /\ timeouts' = m.timeouts
  /\ nextId' = m.nextId
  /\ outcome' = m.outcome
  /\ emitted' = m.emitted
  /\ messages' = m.messages
  /\ returned' = m.returned
  /\ commands' = commands \o c
  /\ toRenderer' = toRenderer \o Forwarded(m) \o out
  /\ Len(toRenderer') <= MaxInFlight
  /\ UNCHANGED oauthVars

\* A callback of the main process that no invocation of the store has caused.
Commit(n, c) == Settle(n, c, <<>>) /\ UNCHANGED <<store, toMain>>

\* ---- DeviceOAuthManager ----

Flows == 1..MaxFlows
Providers == {"minimax-portal", "qwen-portal"}
NoFlow == [pc |-> "idle", provider |-> "null", cancelled |-> FALSE]

\* The manager before a callback runs; sent starts empty.
OAuthCur ==
  [active |-> active, activeProvider |-> activeProvider, flows |-> flows, sent |-> <<>>]

OAuthCommit(d) ==
  /\ active' = d.active
  /\ activeProvider' = d.activeProvider
  /\ flows' = d.flows
  /\ oauthSent' = d.sent
  /\ UNCHANGED <<managerVars, store, toMain, toRenderer>>

\* The flows that wait for their login are from now on cancelled ones.
cancelRunning(d) ==
  [d EXCEPT !.flows = [f \in Flows |->
                         IF d.flows[f].pc = "login"
                         THEN [d.flows[f] EXCEPT !.cancelled = TRUE] ELSE d.flows[f]]]

\* stopFlow()
stopFlow(d) == [d EXCEPT !.active = FALSE, !.activeProvider = "null"]

\* emitError(message)
emitError(d, f) ==
  [d EXCEPT !.sent = Append(@, [ch |-> "oauth:error", flow |-> f,
                                provider |-> d.flows[f].provider])]

\* The catch of startFlow(): silent when the flag is down, else oauth:error
\* and the flag is cleared.
flowCatch(d, f) ==
  IF ~d.active THEN [d EXCEPT !.flows[f].pc = "done"]
  ELSE [emitError(d, f) EXCEPT !.active = FALSE, !.activeProvider = "null",
                               !.flows[f].pc = "done"]

\* startFlow(provider) up to the await of the login call; present is
\* isOpenClawPresent().
startFlow(d, f, provider, present) ==
  LET d1 == IF d.active THEN stopFlow(d) ELSE d
      d2 == [d1 EXCEPT !.active = TRUE, !.activeProvider = provider,
                       !.flows[f] = [pc |-> "login", provider |-> provider,
                                     cancelled |-> FALSE]]
  IN IF present THEN d2 ELSE flowCatch(d2, f)

\* The login call of flow f returns a token (ok) or throws: with the flag
\* down the flow ends silently; else onSuccess() clears the flag and goes on
\* to save the provider, or the catch reports the error.
loginDone(d, f, ok) ==
  IF ok
  THEN IF ~d.active THEN [d EXCEPT !.flows[f].pc = "done"]
       ELSE [d EXCEPT !.active = FALSE, !.activeProvider = "null",
                      !.flows[f].pc = "saving"]
  ELSE flowCatch(d, f)

\* onSuccess() after its awaits: oauth:success is sent, or saveProvider threw.
saveDone(d, f, ok) ==
  IF ok
  THEN [d EXCEPT !.sent = Append(@, [ch |-> "oauth:success", flow |-> f,
                                     provider |-> d.flows[f].provider]),
                 !.flows[f].pc = "done"]
  ELSE flowCatch(d, f)

Init ==
  /\ status = [state |-> "stopped", port |-> OPENCLAW_GATEWAY, pid |-> 0,
               error |-> "none"]
  /\ process = 0
  /\ ws = 0
  /\ reconnectTimer = FALSE
  /\ reconnectTimeouts = 0
  /\ pingInterval = FALSE
  /\ pendingRequests = {}
  /\ socks = [s \in Sockets |-> FreeSock]
  /\ procs = [p \in Procs |-> FreeProc]
  /\ calls = [k \in Calls |-> FreeCall]
  /\ timeouts = {}
  /\ nextId = 0
  /\ outcome = [i \in Ids |-> NoOutcome]
  /\ emitted = <<>>
  /\ messages = <<>>
  /\ returned = <<>>
  /\ commands = <<>>
  /\ store = [status |-> [state |-> "stopped", port |-> OPENCLAW_GATEWAY, pid |-> 0,
                          error |-> "none"],
              isInitialized |-> FALSE, awaiting |-> 0, done |-> "none"]
  /\ toMain = <<>>
  /\ toRenderer = <<>>
  /\ active = FALSE
  /\ activeProvider = "null"
  /\ flows = [f \in Flows |-> NoFlow]
  /\ oauthSent = <<>>

\* ---- the callbacks ----

\* gateway:start, or the application starting the gateway.
Command == Len(commands) < MaxCommands

Start == Command /\ canStart(Cur) /\ Commit(start(Cur, FALSE), <<"start">>)

\* gateway:stop
Stop == Command /\ Commit(stop(Cur), <<"stop">>)

\* gateway:restart: stop() has no await, so start() follows in the same callback.
Restart ==
  Command /\ canStart(stop(Cur)) /\ Commit(gatewayRestart(Cur), <<"restart">>)

\* A timeout of scheduleReconnect() fires: the handle is dropped, then start().
ReconnectFire ==
  /\ reconnectTimeouts > 0
  /\ LET m == [Cur EXCEPT !.reconnectTimer = FALSE, !.reconnectTimeouts = @ - 1]
     IN canStart(m) /\ Commit(start(m, TRUE), <<>>)

\* The fetch of findExistingGateway() completes.
ProbeDone(k, existing, spawned) ==
  /\ calls[k].pc = "probe"
  /\ IF existing THEN freeSock(Cur) # 0 /\ spawned ELSE freeProc(Cur) # 0
  /\ Commit(afterProbe(Cur, k, existing, spawned), <<>>)

\* The polling of waitForReady() ends: at once, at the last fetch, or by
\* running out of fetches.
Fails == {0, Retries - 1, Retries}

\* The polling of waitForReady() ends.
ReadyDone(k, fails) ==
  /\ calls[k].pc = "ready"
  /\ polling[fails].ok => freeSock(Cur) # 0
  /\ Commit(waitForReady(Cur, k, fails), <<>>)

SockOpen(s) ==
  /\ socks[s].rs = "CONNECTING"
  /\ Commit(onOpen(Cur, s), <<>>)

\* The connection is refused, or the socket was closed while connecting.
SockConnectError(s) ==
  /\ socks[s].rs \in {"CONNECTING", "CLOSING"}
  /\ awaiting(Cur, s) # 0
  /\ Commit(onConnectError(Cur, s), <<>>)

\* An established socket closes: the peer went away or the close handshake ended.
SockClose(s) ==
  /\ socks[s].rs \in {"OPEN", "CLOSING"}
  /\ awaiting(Cur, s) = 0
  /\ Commit(onClose([Cur EXCEPT !.socks[s].rs = "CLOSED"]), <<>>)

SockMessage(s, msg) ==
  /\ socks[s].rs = "OPEN"
  /\ Commit(handleMessage(Cur, msg), <<>>)

ProcExit(p) ==
  /\ procs[p].st = "alive"
  /\ Commit(onExit(Cur, p), <<>>)

ProcError(p) ==
  /\ procs[p].st = "failed"
  /\ Commit(onProcessError(Cur, p), <<>>)

Rpc(method) ==
  /\ isOpen(Cur) => nextId < MaxRequests
  /\ Commit(rpc(Cur, method), <<>>)

RpcTimeout(id) ==
  /\ id \in timeouts
  /\ Commit(onTimeout(Cur, id), <<>>)

\* The ping interval ticks: a ping is sent when the socket is open.
PingTick ==
  /\ pingInterval
  /\ Commit(Cur, <<>>)

\* init() of the store invokes gateway:status.
StoreInit ==
  /\ ~Listening
  /\ toMain = <<>>
  /\ toMain' = Append(toMain, "gateway:status")
  /\ UNCHANGED <<managerVars, store, toRenderer, oauthVars>>

\* The main process handles gateway:status: the reply is a copy of the status.
BridgeStatus ==
  /\ toMain # <<>> /\ Head(toMain) = "gateway:status"
  /\ Settle(Cur, <<>>, <<[ch |-> "gateway:status", body |-> status]>>)
  /\ toMain' = Tail(toMain)
  /\ store' = store

\* start() of the store: 'starting' is shown and gateway:start is invoked.
StoreStart ==
  /\ store.awaiting < MaxAwaited
  /\ store' = storeStart(store)
  /\ toMain' = Append(toMain, "gateway:start")
  /\ UNCHANGED <<managerVars, toRenderer, oauthVars>>

\* The main process handles gateway:start.
BridgeStart ==
  /\ toMain # <<>> /\ Head(toMain) = "gateway:start"
  /\ Command /\ canStart(Cur)
  /\ Settle(start(Cur, FALSE), <<"start">>, <<>>)
  /\ toMain' = Tail(toMain)
  /\ store' = store

\* The window receives the next message from the main process.
Deliver ==
  /\ toRenderer # <<>>
  /\ store' = storeReceive(store, Head(toRenderer))
  /\ toRenderer' = Tail(toRenderer)
  /\ UNCHANGED <<managerVars, toMain, oauthVars>>

\* startFlow(provider) is called: the flow in progress, if any, is replaced.
OAuthStart(f, provider, present) ==
  /\ flows[f].pc = "idle"
  /\ \A g \in Flows : g < f => flows[g].pc # "idle"
  /\ OAuthCommit(startFlow(cancelRunning(OAuthCur), f, provider, present))

\* stopFlow() is called, once a flow has been started.
OAuthStop ==
  /\ \E f \in Flows : flows[f].pc # "idle"
  /\ OAuthCommit(stopFlow(cancelRunning(OAuthCur)))

\* The login call of a flow completes.
LoginDone(f, ok) ==
  /\ flows[f].pc = "login"
  /\ OAuthCommit(loginDone(OAuthCur, f, ok))

\* The provider record of a successful flow is saved, or saving fails.
SaveDone(f, ok) ==
  /\ flows[f].pc = "saving"
  /\ OAuthCommit(saveDone(OAuthCur, f, ok))

Next ==
  \/ Start
  \/ Stop
  \/ Restart
  \/ ReconnectFire
  \/ \E k \in Calls, existing \in BOOLEAN, spawned \in BOOLEAN : ProbeDone(k, existing, spawned)
  \/ \E k \in Calls, fails \in Fails : ReadyDone(k, fails)
  \/ \E s \in Sockets : SockOpen(s)
  \/ \E s \in Sockets : SockConnectError(s)
  \/ \E s \in Sockets : SockClose(s)
  \/ \E s \in Sockets, msg \in Inbound(Cur) : SockMessage(s, msg)
  \/ \E p \in Procs : ProcExit(p)
  \/ \E p \in Procs : ProcError(p)
  \/ \E method \in Methods : Rpc(method)
  \/ \E id \in Ids : RpcTimeout(id)
  \/ PingTick
  \/ StoreInit
  \/ BridgeStatus
  \/ StoreStart
  \/ BridgeStart
  \/ Deliver
  \/ \E f \in Flows, provider \in Providers, present \in BOOLEAN : OAuthStart(f, provider, present)
  \/ OAuthStop
  \/ \E f \in Flows, ok \in BOOLEAN : LoginDone(f, ok)
  \/ \E f \in Flows, ok \in BOOLEAN : SaveDone(f, ok)

Spec == Init /\ [][Next]_vars

\* The lifecycle alone: no rpc() call is made, the backend sends nothing, and
\* every spawn succeeds.
NextLife ==
  \/ Start
  \/ Stop
  \/ Restart
  \/ ReconnectFire
  \/ \E k \in Calls, existing \in BOOLEAN : ProbeDone(k, existing, TRUE)
  \/ \E k \in Calls, fails \in Fails : ReadyDone(k, fails)
  \/ \E s \in Sockets : SockOpen(s)
  \/ \E s \in Sockets : SockConnectError(s)
  \/ \E s \in Sockets : SockClose(s)
  \/ \E p \in Procs : ProcExit(p)
  \/ PingTick

SpecLife == Init /\ [][NextLife]_vars

\* The request traffic: rpc() calls, responses, notifications and timeouts
\* around sessions that are started and stopped by command.  The run is over
\* before a reconnect timer fires, and every spawn succeeds.
NextRpc ==
  \/ Start
  \/ Stop
  \/ \E k \in Calls, existing \in BOOLEAN : ProbeDone(k, existing, TRUE)
  \/ \E k \in Calls, fails \in Fails : ReadyDone(k, fails)
  \/ \E s \in Sockets : SockOpen(s)
  \/ \E s \in Sockets : SockConnectError(s)
  \/ \E s \in Sockets : SockClose(s)
  \/ \E s \in Sockets, msg \in Inbound(Cur) : SockMessage(s, msg)
  \/ \E p \in Procs : ProcExit(p)
  \/ \E method \in Methods : Rpc(method)
  \/ \E id \in Ids : RpcTimeout(id)
  \/ PingTick

SpecRpc == Init /\ [][NextRpc]_vars

\* The reconnect loop: sessions started and stopped by command, sockets and
\* processes that go away, and the reconnect timer.  A timer that is armed
\* fires, a fetch completes, a polling loop ends and a connecting socket
\* opens or fails; whether the backend answers is left open.
NextRecon ==
  \/ Start
  \/ Stop
  \/ ReconnectFire
  \/ \E k \in Calls, existing \in BOOLEAN : ProbeDone(k, existing, TRUE)
  \/ \E k \in Calls, fails \in Fails : ReadyDone(k, fails)
  \/ \E s \in Sockets : SockOpen(s)
  \/ \E s \in Sockets : SockConnectError(s)
  \/ \E s \in Sockets : SockClose(s)
  \/ \E p \in Procs : ProcExit(p)

SpecRecon ==
  /\ Init /\ [][NextRecon]_vars
  /\ WF_vars(ReconnectFire)
  /\ WF_vars(\E k \in Calls, existing \in BOOLEAN : ProbeDone(k, existing, TRUE))
  /\ WF_vars(\E k \in Calls, fails \in Fails : ReadyDone(k, fails))
  /\ WF_vars(\E s \in Sockets : SockOpen(s) \/ SockConnectError(s))

\* The start sequence with all its failures: starts and stops by command and
\* by the reconnect timer, probes that fail, spawns that fail, polling that
\* runs out and connections that are refused.
NextStart ==
  \/ Start
  \/ Stop
  \/ ReconnectFire
  \/ \E k \in Calls, existing \in BOOLEAN, spawned \in BOOLEAN : ProbeDone(k, existing, spawned)
  \/ \E k \in Calls, fails \in Fails : ReadyDone(k, fails)
  \/ \E s \in Sockets : SockOpen(s)
  \/ \E s \in Sockets : SockConnectError(s)
  \/ \E s \in Sockets : SockClose(s)
  \/ \E p \in Procs : ProcExit(p)
  \/ \E p \in Procs : ProcError(p)

SpecStart == Init /\ [][NextStart]_vars

\* The reconnect loop of one session: the gateway is started once and never
\* stopped; from then on only the backend and the timers act.
FirstStart == commands = <<>> /\ Start

NextLoop ==
  \/ FirstStart
  \/ ReconnectFire
  \/ \E k \in Calls, existing \in BOOLEAN : ProbeDone(k, existing, TRUE)
  \/ \E k \in Calls, fails \in Fails : ReadyDone(k, fails)
  \/ \E s \in Sockets : SockOpen(s)
  \/ \E s \in Sockets : SockConnectError(s)
  \/ \E s \in Sockets : SockClose(s)
  \/ \E p \in Procs : ProcExit(p)

SpecLoop ==
  /\ Init /\ [][NextLoop]_vars
  /\ WF_vars(ReconnectFire)
  /\ WF_vars(\E k \in Calls, existing \in BOOLEAN : ProbeDone(k, existing, TRUE))
  /\ WF_vars(\E k \in Calls, fails \in Fails : ReadyDone(k, fails))
  /\ WF_vars(\E s \in Sockets : SockOpen(s) \/ SockConnectError(s))

\* The store and the manager: the window initialises its store and asks for
\* starts through the bridge; the manager's sockets open, fail and close, and
\* the reconnect timer fires.  Every spawn succeeds and no process exits.
NextStore ==
  \/ StoreInit
  \/ BridgeStatus
  \/ StoreStart
  \/ BridgeStart
  \/ Deliver
  \/ ReconnectFire
  \/ \E k \in Calls, existing \in BOOLEAN : ProbeDone(k, existing, TRUE)
  \/ \E k \in Calls, fails \in Fails : ReadyDone(k, fails)
  \/ \E s \in Sockets : SockOpen(s)
  \/ \E s \in Sockets : SockConnectError(s)
  \/ \E s \in Sockets : SockClose(s)

SpecStore == Init /\ [][NextStore]_vars

\* The device-OAuth manager alone: flows are started and stopped, and their
\* login calls and saves complete in any order.
NextOAuth ==
  \/ \E f \in Flows, provider \in Providers, present \in BOOLEAN : OAuthStart(f, provider, present)
  \/ OAuthStop
  \/ \E f \in Flows, ok \in BOOLEAN : LoginDone(f, ok)
  \/ \E f \in Flows, ok \in BOOLEAN : SaveDone(f, ok)

SpecOAuth == Init /\ [][NextOAuth]_vars

\* ---- the claims ----

LastCommand == IF commands = <<>> THEN "none" ELSE commands[Len(commands)]

\* Every callback that was outstanding has run: no start() is suspended, no
\* socket is still connecting or closing, no killed process is still to exit.
Quiescent ==
  /\ \A k \in Calls : calls[k].pc = "idle"
  /\ \A s \in Sockets : socks[s].rs \notin {"CONNECTING", "CLOSING"}
  /\ \A p \in Procs : ~procs[p].killed

\* C1: in every reachable state, status.state is 'running' if and only if
\* this.ws exists and is open.
C1_RunningIffOpen == (status.state = "running") <=> isOpen(Cur)

\* C2: when start() was called and then stop(), once every outstanding
\* callback has run the state is 'stopped', no request is pending and neither
\* the heartbeat nor the reconnect timer is active.
C2_StartStopEndsStopped ==
  (commands = <<"start", "stop">> /\ Quiescent)
    => /\ status.state = "stopped"
       /\ pendingRequests = {}
       /\ ~pingInterval
       /\ ~reconnectTimer

\* C3: the close event of a socket that stop() closed is not handled as an
\* unexpected disconnect: it leaves the status alone and schedules no reconnect.
C3_OwnCloseIgnored ==
  [][\A s \in Sockets :
       (socks[s].byStop /\ SockClose(s))
         => (status' = status /\ reconnectTimer' = reconnectTimer)]_vars

\* C4: once stop() has been called, and until start() is called again, no
\* reconnect timer is scheduled.
C4_NoReconnectAfterStop == (LastCommand = "stop") => ~reconnectTimer

\* C5: when the manager's open socket closes, every request pending at that
\* moment is rejected and removed from the table in the same callback.
C5_TeardownFailsPending ==
  [][\A s \in Sockets :
       (ws = s /\ socks[s].rs = "OPEN" /\ SockClose(s))
         => (pendingRequests' = {} /\ \A id \in pendingRequests : outcome'[id].n = 1)]_vars

Settled == {"resolved", "rejected", "timeout", "stopped"}

C7_ResponseSettlesItsRequest ==
  \A msg \in Msgs :
    msg.id \in pendingRequests =>
      LET n == handleMessage(Cur, msg) IN
      /\ n.outcome[msg.id] =
           IF msg.error # 0 THEN [how |-> "rejected", val |-> msg.error, n |-> 1]
           ELSE [how |-> "resolved", val |-> msg.result, n |-> 1]
      /\ msg.id \notin n.pendingRequests
      /\ msg.id \notin n.timeouts
      /\ \A o \in Ids \ {msg.id} :
           /\ n.outcome[o] = outcome[o]
           /\ (o \in n.pendingRequests) <=> (o \in pendingRequests)
           /\ (o \in n.timeouts) <=> (o \in timeouts)

\* The second request was answered first, and the first is still pending.
C7_Witness ==
  /\ outcome[2] = [how |-> "resolved", val |-> 2, n |-> 1]
  /\ outcome[1].how = "pending"
  /\ 1 \in pendingRequests
  /\ 1 \in timeouts

\* C8: a start(), by command or by the reconnect timer, that finds the state
\* 'running' changes neither the status, the sockets, the processes nor the
\* suspended start() invocations, and emits no status event.
C8_StartWhileRunningNoOp ==
  [][(status.state = "running" /\ (Start \/ ReconnectFire))
       => /\ status' = status
          /\ emitted' = <<>>
          /\ socks' = socks /\ ws' = ws
          /\ procs' = procs /\ process' = process
          /\ calls' = calls]_vars

\* The reconnect timer fired while the manager was running again.
C8_Witness ==
  /\ status.state = "running"
  /\ returned = <<[op |-> "start", byTimer |-> TRUE, ok |-> TRUE, error |-> "none"]>>
  /\ emitted = <<>>

\* C10: after stop() the state is 'stopped', both timers are cleared, the
\* socket is closed and dropped, the process is killed and dropped, and every
\* request that was pending is rejected with 'Gateway stopped', its timer
\* cancelled, the table empty.
C10_StopTearsDown ==
  [][Stop
       => /\ status'.state = "stopped"
          /\ ~reconnectTimer' /\ ~pingInterval'
          /\ ws' = 0
          /\ ws # 0 => socks'[ws].rs \notin {"CONNECTING", "OPEN"}
          /\ process' = 0
          /\ (process # 0 /\ procs[process].st = "alive") => procs'[process].killed
          /\ pendingRequests' = {}
          /\ \A id \in pendingRequests :
               /\ outcome'[id] = [how |-> "stopped", val |-> 0, n |-> 1]
               /\ id \notin timeouts']_vars

\* stop() found two requests pending, an open socket and a live process.
C10_Witness ==
  /\ LastCommand = "stop"
  /\ status.state = "stopped"
  /\ outcome[1].how = "stopped" /\ outcome[2].how = "stopped"
  /\ \E p \in Procs : procs[p].killed
  /\ \E s \in Sockets : socks[s].rs = "CLOSING" /\ socks[s].byStop

\* The manager's own socket closed while the state was 'running': the close
\* handler has set 'stopped' and armed the reconnect timer.
Disconnected ==
  /\ status.state = "stopped"
  /\ reconnectTimer
  /\ ws # 0 /\ socks[ws].rs = "CLOSED"

\* C11: when a socket that stop() did not close closes while the state is
\* 'running', the state becomes 'stopped', a status event is emitted and a
\* reconnect is scheduled; and from there, unless a start or stop command is
\* issued, the manager enters 'starting' again.
C11_DisconnectReconnects ==
  /\ [][\A s \in Sockets :
          (status.state = "running" /\ ~socks[s].byStop /\ SockClose(s))
            => /\ status'.state = "stopped"
               /\ emitted' = <<status'>>
               /\ reconnectTimer']_vars
  /\ \A n \in 0..MaxCommands :
       (Disconnected /\ Len(commands) = n)
         ~> (status.state = "starting" \/ Len(commands) > n)

\* The reconnect loop is alive: its timer is armed, or a start() it made is
\* under way.
Chain ==
  reconnectTimer \/ \E k \in Calls : calls[k].pc # "idle" /\ calls[k].byTimer

\* A start() made by the reconnect timer threw in the last callback.
AttemptFailed ==
  \E i \in DOMAIN returned :
    returned[i].op = "start" /\ returned[i].byTimer /\ ~returned[i].ok

\* A step in which the backend proves unreachable: a probe fails, the polling
\* runs out, or a connection is refused.
Unreachable ==
  \/ \E k \in Calls : ProbeDone(k, FALSE, TRUE)
  \/ \E k \in Calls : ReadyDone(k, Retries)
  \/ \E s \in Sockets : SockConnectError(s)

\* Every socket or process the model can hold is in use, so that a start()
\* under way cannot be given the new one the program would create.
Exhausted == freeSock(Cur) = 0 \/ freeProc(Cur) = 0

\* C12: a start() of the reconnect timer that fails arms the timer again;
\* without a stop() the reconnect loop ends only in the state 'running'; it
\* goes on to a next failed attempt or to 'running'; and when the backend is
\* reachable from some point on, it goes on to 'running'.
C12_ReconnectUntilRunning ==
  /\ [](AttemptFailed => reconnectTimer)
  /\ [][(Chain /\ ~Stop) => (Chain' \/ status'.state = "running")]_vars
  /\ Chain ~> (\/ status.state = "running"
               \/ AttemptFailed
               \/ LastCommand = "stop" \/ Exhausted)
  /\ (<>[][~Unreachable]_vars)
       => (Chain ~> (\/ status.state = "running"
                     \/ LastCommand = "stop" \/ Exhausted))

\* The reconnect timer's start() failed and the timer is armed again.
C12_Witness ==
  /\ AttemptFailed
  /\ reconnectTimer
  /\ status.state = "error"
  /\ LastCommand = "start"

NotConnected ==
  [op |-> "rpc", byTimer |-> FALSE, ok |-> FALSE, error |-> "Error: Gateway not connected"]

\* C13: an rpc() call made while this.ws is missing or not open rejects with
\* 'Gateway not connected' and does nothing else: no id is generated, nothing
\* enters the table, no timer is armed and nothing is sent.
C13_RpcNotConnected ==
  \A method \in Methods :
    ~isOpen(Cur) =>
      LET n == rpc(Cur, method) IN
      /\ n.returned = <<NotConnected>>
      /\ n.nextId = nextId
      /\ n.pendingRequests = pendingRequests
      /\ n.timeouts = timeouts /\ n.armed = <<>>
      /\ n.sent = <<>>
      /\ n.outcome = outcome

\* rpc() was called after the socket of a pending request had closed.
C13_Witness ==
  /\ returned = <<NotConnected>>
  /\ ~isOpen(Cur)
  /\ nextId = 1 /\ pendingRequests = {1}

\* C14: rpc() arms for its request a timer of its own with a delay of 30000 ms
\* and records the method; a request is rejected with the timeout error only by
\* the callback of its own timer, which names the method of the call and takes
\* the id out of the table, where it does not appear again; and as long as the
\* request is pending its timer stays armed.
C14_TimeoutRejectsItsRequest ==
  /\ [](\A method \in Methods :
          (isOpen(Cur) /\ nextId < MaxRequests) =>
            LET n == rpc(Cur, method) IN
            /\ n.armed = <<[id |-> nextId + 1, ms |-> RpcDeadline]>>
            /\ n.outcome[nextId + 1] = [how |-> "pending", val |-> method, n |-> 0])
  /\ [](\A id \in Ids :
          /\ id \in pendingRequests => id \in timeouts
          /\ outcome[id].how = "timeout" => id \notin pendingRequests)
  /\ [][\A id \in Ids :
          /\ (outcome[id].how # "timeout" /\ outcome'[id].how = "timeout")
               => (id \in timeouts /\ RpcTimeout(id))
          /\ (id \in pendingRequests /\ RpcTimeout(id))
               => /\ outcome'[id] = [how |-> "timeout", val |-> outcome[id].val, n |-> 1]
                  /\ pendingRequests' = pendingRequests \ {id}
                  /\ \A o \in Ids \ {id} : outcome'[o] = outcome[o]]_vars

\* Two calls of different methods were sent; the second timed out, named by
\* its method, while the first was still pending.
C14_Witness ==
  /\ outcome[1] = [how |-> "pending", val |-> 1, n |-> 0]
  /\ outcome[2] = [how |-> "timeout", val |-> 2, n |-> 1]
  /\ pendingRequests = {1}
  /\ timeouts = {1}

\* C15: a response whose id is not in the table settles nothing and is not
\* emitted as a 'message' event: the only messages emitted, and forwarded to
\* the window, are those without an id.
C15_UnmatchedDropped ==
  /\ \A i \in DOMAIN messages : messages[i].id = 0
  /\ \A msg \in Msgs :
       (msg.id # 0 /\ msg.id \notin pendingRequests)
         => handleMessage(Cur, msg).outcome = outcome

\* A start() call threw the given error in the last callback.
StartThrew(error) ==
  \E i \in DOMAIN returned :
    returned[i].op = "start" /\ ~returned[i].ok /\ returned[i].error = error

\* The last callback left the state 'error' with the given message and threw
\* it to the caller of start().
FailedWith(error) ==
  /\ status.state = "error"
  /\ status.error = error
  /\ StartThrew(error)

\* C16: when the launch fails (the child process emits 'error'), when the
\* readiness polling runs out of attempts, and when the socket fails to
\* connect, the callback leaves the state 'error' with the message of that
\* failure and throws the same error to the caller of start().
C16_StartFailureIsError ==
  [][/\ \A k \in Calls : ReadyDone(k, Retries) => FailedWith("Error: Gateway failed to start")'
     /\ \A s \in Sockets : SockConnectError(s) => FailedWith("Error: WebSocket connection failed")'
     /\ \A p \in Procs : ProcError(p) => FailedWith("Error: spawn failed")']_vars

\* Failures of the readiness polling and of the socket connect alone.
PollAndConnectFailures ==
  [][/\ \A k \in Calls : ReadyDone(k, Retries) => FailedWith("Error: Gateway failed to start")'
     /\ \A s \in Sockets : SockConnectError(s) => FailedWith("Error: WebSocket connection failed")']_vars

\* C17: when the process that the only start() under way has spawned emits
\* 'error', that start() throws the spawn error, the state becomes 'error'
\* with it, and the call goes on neither to the polling nor to a connect.
C17_SpawnFailureFailsStart ==
  [][\A p \in Procs, k \in Calls :
       (/\ process = p /\ ProcError(p)
        /\ calls[k].pc = "ready"
        /\ \A j \in Calls \ {k} : calls[j].pc = "idle")
         => /\ FailedWith("Error: spawn failed")'
            /\ calls'[k].pc = "idle"]_vars

\* C18: status.pid is set only while the manager holds the process it
\* spawned, and is that process's pid; in a session that runs without a
\* process of the manager's own (an adopted backend) it is unset.
C18_PidOnlyWhenSpawned ==
  /\ status.pid # 0 => (process # 0 /\ status.pid = process)
  /\ (status.state = "running" /\ process = 0) => status.pid = 0

\* The first start() of a run, made from the initial state, is at the given
\* point of its sequence.
FirstCallAt(k, pc) ==
  /\ commands = <<"start">>
  /\ calls[k].pc = pc
  /\ ~calls[k].byTimer

StartReturned ==
  [op |-> "start", byTimer |-> FALSE, ok |-> TRUE, error |-> "none"]

\* C19: in the first start() from the initial state, when the probe of the
\* default port succeeds, start() goes straight to a connect to that port: no
\* process is spawned, no health fetch of the polling is made, status.pid stays
\* unset; and the open of that socket sets 'running' and start() returns.
C19_AdoptsExistingBackend ==
  \A k \in Calls :
    /\ FirstCallAt(k, "probe") =>
         LET n == afterProbe(Cur, k, TRUE, TRUE) IN
         /\ n.process = 0 /\ n.procs = procs
         /\ n.polled = <<>>
         /\ n.status = status /\ n.status.pid = 0 /\ n.emitted = <<>>
         /\ n.calls[k].pc = "connect"
         /\ n.ws = n.calls[k].sock
         /\ n.socks[n.ws] = [rs |-> "CONNECTING", byStop |-> FALSE, port |-> OPENCLAW_GATEWAY]
    /\ (FirstCallAt(k, "connect") /\ process = 0 /\ socks[calls[k].sock].rs = "CONNECTING") =>
         LET n == onOpen(Cur, calls[k].sock) IN
         /\ n.status.state = "running"
         /\ n.status.port = OPENCLAW_GATEWAY
         /\ n.status.pid = 0
         /\ n.procs = procs /\ n.process = 0
         /\ n.returned = <<StartReturned>>

\* The first start() has adopted a backend and returned.
C19_Witness ==
  /\ commands = <<"start">>
  /\ status = [state |-> "running", port |-> OPENCLAW_GATEWAY, pid |-> 0, error |-> "none"]
  /\ process = 0
  /\ returned = <<StartReturned>>

\* C20: in the first start() from the initial state, when the adoption probe
\* fails, start() spawns the process and publishes its pid without creating a
\* socket; the polling then makes at most Retries fetches and none after the
\* first that succeeds; a socket is created only when a fetch succeeded; and
\* the open of that socket sets 'running' with the pid still set.
C20_SpawnPollConnect ==
  \A k \in Calls :
       /\ FirstCallAt(k, "probe") =>
            LET n == afterProbe(Cur, k, FALSE, TRUE) IN
            /\ n.process # 0 /\ n.procs[n.process].st = "alive"
            /\ n.status = [status EXCEPT !.pid = n.process]
            /\ n.emitted = <<n.status>>
            /\ n.calls[k].pc = "ready"
            /\ n.polled = <<>>
            /\ n.ws = ws /\ n.socks = socks
       /\ FirstCallAt(k, "ready") =>
            \A fails \in 0..Retries :
              polling[fails] =
                [ok |-> fails < Retries,
                 fetches |-> IF fails < Retries THEN fails + 1 ELSE Retries]
       /\ (FirstCallAt(k, "ready") /\ status.pid # 0) =>
            \A fails \in Fails :
              LET n == waitForReady(Cur, k, fails) IN
              /\ n.polled = <<IF fails < Retries THEN fails + 1 ELSE Retries>>
              /\ IF fails < Retries
                 THEN /\ n.calls[k].pc = "connect"
                      /\ n.ws = n.calls[k].sock
                      /\ n.socks[n.ws] =
                           [rs |-> "CONNECTING", byStop |-> FALSE, port |-> status.port]
                      /\ n.status = status
                 ELSE /\ n.ws = ws /\ n.socks = socks
                      /\ n.status.state = "error"
       /\ (FirstCallAt(k, "connect") /\ status.pid # 0 /\ socks[calls[k].sock].rs = "CONNECTING") =>
            LET n == onOpen(Cur, calls[k].sock) IN
            /\ n.status.state = "running"
            /\ n.status.pid = status.pid /\ n.status.pid = process
            /\ n.returned = <<StartReturned>>

\* The first start() has spawned a process, found it ready and returned.
C20_Witness ==
  /\ commands = <<"start">>
  /\ status.state = "running"
  /\ process # 0 /\ status.pid = process /\ procs[process].st = "alive"
  /\ returned = <<StartReturned>>

\* A start() made by a caller, not by the reconnect timer, threw in the last
\* callback.
ManualStartThrew ==
  \E i \in DOMAIN returned :
    returned[i].op = "start" /\ ~returned[i].byTimer /\ ~returned[i].ok

\* The manager waits for an explicit retry: state 'error', no reconnect timer
\* and no start() under way.
AwaitingRetry ==
  /\ status.state = "error"
  /\ ~reconnectTimer
  /\ \A k \in Calls : calls[k].pc = "idle"

C21_WithoutOverlap ==
  /\ [][(~Chain /\ status.state # "running" /\ ManualStartThrew')
          => (status'.state = "error" /\ ~reconnectTimer')]_vars
  /\ [][(AwaitingRetry /\ ~Start /\ ~Stop)
          => /\ AwaitingRetry'
             /\ status' = status /\ emitted' = <<>>
             /\ ws' = ws /\ process' = process
             /\ \A s \in Sockets : socks'[s].rs # "CONNECTING"
             /\ \A p \in Procs : procs'[p].st = "alive" => procs[p].st = "alive"]_vars

\* The statuses a listener of 'status' has been handed by the end of a
\* callback, after the one it knew before.
Seen == <<status>> \o emitted'

\* C22: in every callback, the status the manager ends with is the payload of
\* the last 'status' event the callback emitted, and is unchanged when it
\* emitted none; each change of state within the callback is one event, so
\* the states of the events, in order, are the states the manager went
\* through.
C22_StatusEventsFollowState ==
  [][/\ status' = Seen[Len(Seen)]
     /\ status'.state # status.state
          => \E i \in DOMAIN emitted' : emitted'[i].state = status'.state
     /\ \A i \in DOMAIN emitted' :
          /\ emitted'[i].state \in {"stopped", "starting", "running", "error"}
          /\ DOMAIN emitted'[i] = DOMAIN status]_vars

\* A restart of a gateway that held a process: one callback, two changes of
\* state, two events in that order.
C22_Witness ==
  /\ LastCommand = "restart"
  /\ Len(emitted) = 2
  /\ emitted[1].state = "stopped" /\ emitted[2].state = "starting"
  /\ status = emitted[2]
  /\ \E p \in Procs : procs[p].killed

\* C23: the bridge's result is tagged by the outcome of the operation: for
\* start() and for an rpc() refused at once, success is whether the call
\* returned, and a failure carries the text of what it threw; for a settled
\* request, success with the result exactly when its response resolved it,
\* else failure with the text of the rejection; and gateway:restart runs
\* start() on the manager that stop() has left: stopped first, everything
\* torn down, then 'starting' with a fresh start() at its probe.
C23_BridgeTagsResults ==
  /\ \A i \in DOMAIN returned :
       LET r == returned[i]
           reply == Reply(r.ok, r.error)
       IN /\ reply.success = r.ok
          /\ r.ok => DOMAIN reply = {"success"}
          /\ ~r.ok => (reply.error = r.error /\ r.error # "none")
  /\ \A id \in Ids :
       outcome[id].n >= 1 =>
         LET o == outcome[id]
             reply == gatewayRpcReply(o)
         IN /\ reply.success <=> (o.how = "resolved")
            /\ reply.success => reply.result = o.val
            /\ ~reply.success =>
                 reply.error \in {<<"Error: ", o.val>>, <<"Error: RPC timeout: ", o.val>>,
                                  "Error: Gateway stopped"}
  /\ canStart(stop(Cur)) =>
       LET n == gatewayRestart(Cur) IN
       /\ Len(n.emitted) = 2
       /\ n.emitted[1].state = "stopped" /\ n.emitted[2].state = "starting"
       /\ n.status.state = "starting"
       /\ n.ws = 0 /\ n.process = 0 /\ n.pendingRequests = {} /\ n.timeouts = {}
       /\ ~n.reconnectTimer /\ ~n.pingInterval
       /\ \A id \in pendingRequests : n.outcome[id].how = "stopped"
       /\ \E k \in Calls : calls[k].pc = "idle" /\ n.calls[k].pc = "probe"
       /\ n.returned = <<>>

\* A request was answered with an error and another with a result while the
\* gateway runs with a process of its own: a restart would find all of it.
C23_Witness ==
  /\ status.state = "running"
  /\ outcome[1].how = "rejected" /\ outcome[2].how = "resolved"
  /\ gatewayRpcReply(outcome[1]) = [success |-> FALSE, error |-> <<"Error: ", 1>>]
  /\ gatewayRpcReply(outcome[2]).success
  /\ isOpen(Cur) /\ process # 0 /\ pingInterval

\* The callback that ended as n left the status, the socket, the process,
\* the reconnect timer, the heartbeat and the start() calls as they were and
\* emitted no status event.
ManagerUntouched(n) ==
  /\ n.status = status /\ n.emitted = <<>>
  /\ n.ws = ws /\ n.socks = socks
  /\ n.process = process /\ n.procs = procs
  /\ n.reconnectTimer = reconnectTimer /\ n.pingInterval = pingInterval
  /\ n.calls = calls

\* The callback that ended as n left every request but id as it was.
OthersUntouched(n, id) ==
  \A o \in Ids \ {id} :
    /\ n.outcome[o] = outcome[o]
    /\ (o \in n.pendingRequests) <=> (o \in pendingRequests)
    /\ (o \in n.timeouts) <=> (o \in timeouts)

\* C24: an rpc() refused for want of an open socket, the timeout of a
\* request, and an error response to a pending request each leave the status,
\* the socket, the process, the reconnect timer, the heartbeat and every other
\* request with its timer as they were, and emit no status event.
C24_RpcFailureIsLocal ==
  /\ \A method \in Methods :
       ~isOpen(Cur) =>
         LET n == rpc(Cur, method) IN
         ManagerUntouched(n) /\ OthersUntouched(n, 0)
  /\ \A id \in timeouts :
       LET n == onTimeout(Cur, id) IN
       /\ n.outcome[id].how = "timeout"
       /\ ManagerUntouched(n) /\ OthersUntouched(n, id)
  /\ \A msg \in Msgs :
       (msg.id \in pendingRequests /\ msg.error # 0) =>
         LET n == handleMessage(Cur, msg) IN
         /\ n.outcome[msg.id].how = "rejected"
         /\ ManagerUntouched(n) /\ OthersUntouched(n, msg.id)

\* One request was rejected by an error response; the gateway runs on, its
\* heartbeat armed, the other request pending with its timer.
C24_Witness ==
  /\ outcome[1] = [how |-> "rejected", val |-> 1, n |-> 1]
  /\ outcome[2].how = "pending"
  /\ pendingRequests = {2} /\ timeouts = {2}
  /\ status.state = "running" /\ isOpen(Cur) /\ pingInterval

\* C25: a message without an id, or with an id that is not in the table, is
\* emitted once as a 'message' event, as it came, and the callback changes
\* neither the table, the timers, the outcome of any request nor the status,
\* and emits no status event.
C25_UnmatchedIsEmitted ==
  /\ \A msg \in Msgs :
       (msg.id = 0 \/ msg.id \notin pendingRequests) =>
         LET n == handleMessage(Cur, msg) IN
         /\ n.messages = <<msg>>
         /\ n.pendingRequests = pendingRequests
         /\ n.timeouts = timeouts
         /\ n.outcome = outcome
         /\ ManagerUntouched(n)
  /\ Len(messages) <= 1

\* The response to a request arrived after the request had timed out, while
\* another request was pending: it was emitted as a 'message' event.
C25_Witness ==
  /\ Len(messages) = 1
  /\ messages[1].id = 1 /\ messages[1].result # 0
  /\ outcome[1].how = "timeout"
  /\ pendingRequests = {2} /\ outcome[2].how = "pending"

\* The manager runs on its own process and its own open socket.
RunningOwnBackend(s, p) ==
  /\ status.state = "running"
  /\ ws = s /\ socks[s].rs = "OPEN"
  /\ process = p /\ procs[p].st = "alive"

\* C26: at most one timeout of scheduleReconnect() is pending, and it is the
\* one this.reconnectTimer holds; scheduleReconnect() with a timer pending
\* changes nothing; and when the backend the manager runs on dies, the close
\* of the socket and the exit of the process, handled in either order, set
\* one timeout, whose firing makes one start() and leaves none pending.
C26_OneReconnectTimer ==
  /\ reconnectTimeouts = (IF reconnectTimer THEN 1 ELSE 0)
  /\ reconnectTimer => scheduleReconnect(Cur) = Cur
  /\ \A s \in Sockets, p \in Procs :
       RunningOwnBackend(s, p) =>
         LET closed == onClose([Cur EXCEPT !.socks[s].rs = "CLOSED"])
             both == onExit(closed, p)
             exited == onExit(Cur, p)
             either == onClose([exited EXCEPT !.socks[s].rs = "CLOSED"])
             fired == start([both EXCEPT !.reconnectTimer = FALSE,
                                        !.reconnectTimeouts = @ - 1], TRUE)
         IN /\ both.reconnectTimeouts = reconnectTimeouts + (IF reconnectTimer THEN 0 ELSE 1)
            /\ both.reconnectTimeouts = 1 /\ both.reconnectTimer
            /\ either.reconnectTimeouts = 1 /\ either.reconnectTimer
            /\ both.status.state = "stopped" /\ either.status.state = "stopped"
            /\ fired.reconnectTimeouts = 0 /\ ~fired.reconnectTimer

\* The process died and the socket closed: both events were handled, the
\* second in the last callback, and one timer is pending.
C26_Witness ==
  /\ reconnectTimer /\ reconnectTimeouts = 1
  /\ status.state = "stopped"
  /\ emitted = <<>>
  /\ ws # 0 /\ socks[ws].rs = "CLOSED"
  /\ process # 0 /\ procs[process].st = "dead"
  /\ \A k \in Calls : calls[k].pc = "idle"

\* C27: every process the manager has spawned that is alive and has not been
\* killed is the one this.process refers to.
C27_NoOrphanProcess ==
  \A p \in Procs : (procs[p].st = "alive" /\ ~procs[p].killed) => process = p

\* C29: status.error is set only while the state is 'error', in the status
\* and in the payload of every status event.
C29_ErrorOnlyInErrorState ==
  /\ status.error # "none" => status.state = "error"
  /\ \A i \in DOMAIN emitted :
       emitted[i].error # "none" => emitted[i].state = "error"

\* C28: when the last start() of an initialised store has completed with a
\* successful result, no other is awaited and nothing is on its way to the
\* window, the state the store shows is the manager's state.
C28_StoreShowsManagerState ==
  (/\ store.done = "ok"
   /\ store.isInitialized
   /\ store.awaiting = 0
   /\ toRenderer = <<>>)
    => store.status.state = status.state

\* C30: no oauth:success or oauth:error is sent for a flow that stopFlow() or
\* a newer startFlow() has cancelled, and no step of a cancelled flow changes
\* the active flag.
C30_CancelledFlowIsSilent ==
  [][/\ \A i \in DOMAIN oauthSent' : ~flows[oauthSent'[i].flow].cancelled
     /\ \A f \in Flows :
          (flows[f].cancelled /\ flows'[f] # flows[f]) => active' = active]_vars
====
